---- MODULE Spec2Model ----
(***************************************************************************)
(* WiFi client connectivity of the firmware: src/mesh/http/WiFiAPClient.cpp *)
(*                                                                         *)
(* The model follows the globals of the file (needReconnect,               *)
(* APStartupComplete, wifiDisconnectReason, wifiReconnect), the            *)
(* configuration it reads (config.network), and the WiFi stack as seen     *)
(* through WiFi.isConnected().  One action per entry point: initWifi,      *)
(* reconnectWiFi (the Periodic tick), the WiFi event callbacks, and        *)
(* deinitWifi.  Calls made to collaborators (the WiFi object, MDNS, the    *)
(* NTP client, the web/API servers, mqtt, the RTC) are recorded, in order, *)
(* in `calls` for the operation that ran last.                             *)
(***************************************************************************)
EXTENDS Integers, Sequences, FiniteSets, TLC

VARIABLES
    config,               \* config.network: wifi_enabled, wifi_ssid, wifi_psk
    mqtt,                 \* whether the global mqtt pointer is non-null
    needReconnect,        \* static bool needReconnect
    APStartupComplete,    \* bool APStartupComplete
    wifiDisconnectReason, \* uint8_t wifiDisconnectReason
    wifiReconnect,        \* Periodic *wifiReconnect != NULL (handlers registered)
    booted,               \* initWifi() has been called
    link,                 \* the stack's link: WiFi.isConnected() <=> link = "Up"
    lastOp,               \* the operation that ran last
    evReason,             \* reason code carried by the last link-down event
    calls,                \* collaborator calls made by the operation that ran last
    failed,               \* those of them that failed (outcomes the collaborators chose)
    nextDelay,            \* value returned by the last reconnectWiFi()
    connectSinceDown,     \* a tick issued WiFi.begin since the last link-down event
    usableEvents,         \* STA_GOT_IP / AP_START events handled so far (saturating)
    initRuns,             \* runs of the service-initialization block (saturating)
    tpc,                  \* reconnectWiFi run in steps: 0 idle, i the next statement
    tickLog,              \* statements of the reconnect branch run by that tick
    hpc,                  \* onNetworkConnected run in steps, per event context
    overlapped            \* two invocations of onNetworkConnected were in progress at once

vars == <<config, mqtt, needReconnect, APStartupComplete, wifiDisconnectReason,
          wifiReconnect, booted, link, lastOp, evReason, calls, failed,
          nextDelay, connectSinceDown, usableEvents, initRuns,
          tpc, tickLog, hpc, overlapped>>

\* the positions of the operations that the stepwise specifications run
threadVars == <<tpc, tickLog, hpc, overlapped>>

\* the event contexts of a multi-threaded event source
Handlers == {1, 2}

(***************************************************************************)
(* Bounds of the model.                                                    *)
(***************************************************************************)
\* longest network name drawn (the buffer holds one more byte, the NUL)
MaxSsidLen == 2
\* longest secret drawn
MaxPskLen == 1
\* the history counters usableEvents and initRuns saturate here
MaxCount == 2

\* characters a configuration string is drawn from: NUL and one letter
Chars == {0, 77}
\* reason codes a link-down event may carry (uint8_t)
Reasons == {8, 201}

(***************************************************************************)
(* C strings: a char buffer whose last byte is NUL; the string is what     *)
(* precedes the first NUL.                                                 *)
(***************************************************************************)
CBuffers(n) == {b \in [1..(n + 1) -> Chars] : b[n + 1] = 0}

RECURSIVE StrFrom(_, _)
StrFrom(b, i) == IF b[i] = 0 THEN <<>> ELSE <<b[i]>> \o StrFrom(b, i + 1)

\* the string a char pointer to the buffer denotes
Str(b) == StrFrom(b, 1)

StrLen(b) == Len(Str(b))

\* a const char * argument: NULL, or a pointer to a string
NULL == [null |-> TRUE, str |-> <<>>]
Ptr(b) == [null |-> FALSE, str |-> Str(b)]

Call(f, a) == [f |-> f, a |-> a]

Sat(n) == IF n < MaxCount THEN n + 1 ELSE MaxCount

Configs == [wifi_enabled : BOOLEAN,
            wifi_ssid : CBuffers(MaxSsidLen),
            wifi_psk : CBuffers(MaxPskLen)]

(***************************************************************************)
(* The WiFi stack.                                                         *)
(***************************************************************************)
WiFi_isConnected == link = "Up"

Events == {"STA_CONNECTED", "STA_DISCONNECTED", "STA_GOT_IP", "STA_LOST_IP",
           "AP_START", "AP_STOP"}

DownEvents == {"STA_DISCONNECTED", "STA_LOST_IP"}

UsableEvents == {"STA_GOT_IP", "AP_START"}

\* the link after the stack reports `event`
LinkAfter(event) ==
    CASE event \in DownEvents -> "Down"
      [] event \in UsableEvents -> "Up"
      [] OTHER -> link

(***************************************************************************)
(* isWifiAvailable()                                                       *)
(***************************************************************************)
isWifiAvailable_or == config.wifi_enabled \/ (config.wifi_ssid[1] # 0)

isWifiAvailable == config.wifi_enabled /\ (config.wifi_ssid[1] # 0)

(***************************************************************************)
(* reconnectWiFi(): the Periodic tick.                                     *)
(***************************************************************************)
ReconnectGuard_noLinkTest == config.wifi_enabled /\ needReconnect

ReconnectGuard_noFlag == config.wifi_enabled /\ ~WiFi_isConnected

ReconnectGuard_whenConnected == config.wifi_enabled /\ needReconnect /\ WiFi_isConnected

\* line 45
ReconnectGuard == config.wifi_enabled /\ needReconnect /\ ~WiFi_isConnected

HasName_always == TRUE

\* line 50: if (*wifiName)
HasName == config.wifi_ssid[1] # 0

PswArg_never_null == Ptr(config.wifi_psk)

\* lines 43, 47-48: an empty password is passed as NULL
PswArg == IF config.wifi_psk[1] = 0 THEN NULL ELSE Ptr(config.wifi_psk)

FlagAfterConnect_kept == needReconnect

\* line 51
FlagAfterConnect == FALSE

\* lines 54-58
ConnectCalls ==
    << Call("WiFi.disconnect", <<FALSE, TRUE>>),
       Call("WiFi.mode", <<"WIFI_MODE_STA">>),
       Call("WiFi.begin", <<Ptr(config.wifi_ssid), PswArg>>) >>

NtpCalls_always(connected, ok) ==
    IF ok
    THEN << Call("timeClient.update", <<>>),
            Call("perhapsSetRTC", <<"RTCQualityNTP">>) >>
    ELSE << Call("timeClient.update", <<>>) >>

NtpCalls_submitOnFailure(connected, ok) ==
    IF connected
    THEN << Call("timeClient.update", <<>>),
            Call("perhapsSetRTC", <<"RTCQualityNTP">>) >>
    ELSE << >>

\* lines 63-77: the NTP refresh, with the outcome of timeClient.update()
NtpCalls(connected, ok) ==
    IF connected
    THEN IF ok
         THEN << Call("timeClient.update", <<>>),
                 Call("perhapsSetRTC", <<"RTCQualityNTP">>) >>
         ELSE << Call("timeClient.update", <<>>) >>
    ELSE << >>

\* line 80
ReconnectDelay == 43200 * 1000

reconnectWiFi ==
    /\ wifiReconnect
    /\ \E ok \in BOOLEAN :
        LET doConnect == ReconnectGuard /\ HasName
            linkNow == IF doConnect THEN "Connecting" ELSE link
        IN  /\ needReconnect' = IF doConnect THEN FlagAfterConnect ELSE needReconnect
            /\ link' = linkNow
            /\ calls' = (IF doConnect THEN ConnectCalls ELSE << >>)
                          \o NtpCalls(linkNow = "Up", ok)
            /\ (linkNow # "Up" => ok)
            /\ failed' = IF ok THEN {} ELSE {"timeClient.update"}
    /\ connectSinceDown' = (connectSinceDown \/ (ReconnectGuard /\ HasName))
    /\ nextDelay' = ReconnectDelay
    /\ lastOp' = "reconnectWiFi"
    /\ UNCHANGED threadVars
    /\ UNCHANGED <<config, mqtt, APStartupComplete, wifiDisconnectReason,
                   wifiReconnect, booted, evReason, usableEvents, initRuns>>

(***************************************************************************)
(* onNetworkConnected()                                                    *)
(***************************************************************************)
\* line 120
GateOpen == ~APStartupComplete

GateAfter_unset == APStartupComplete

\* line 143
GateAfter == TRUE

\* the steps of the initialization block, each of which may fail
InitSteps == {"MDNS.begin", "timeClient.begin", "initWebServer", "initApiServer"}

StartupCalls_abortOnMdnsFailure(mdnsOk) ==
    IF mdnsOk
    THEN << Call("MDNS.begin", <<"Meshtastic">>),
            Call("MDNS.addService", <<"http", "tcp", 80>>),
            Call("MDNS.addService", <<"https", "tcp", 443>>),
            Call("timeClient.begin", <<>>),
            Call("timeClient.setUpdateInterval", <<60 * 60>>),
            Call("initWebServer", <<>>),
            Call("initApiServer", <<>>) >>
    ELSE << Call("MDNS.begin", <<"Meshtastic">>) >>

\* lines 125-141, with the outcome of MDNS.begin()
StartupCalls(mdnsOk) ==
    << Call("MDNS.begin", <<"Meshtastic">>) >>
    \o (IF mdnsOk
        THEN << Call("MDNS.addService", <<"http", "tcp", 80>>),
                Call("MDNS.addService", <<"https", "tcp", 443>>) >>
        ELSE << >>)
    \o << Call("timeClient.begin", <<>>),
          Call("timeClient.setUpdateInterval", <<60 * 60>>),
          Call("initWebServer", <<>>),
          Call("initApiServer", <<>>) >>

\* lines 147-148
MqttCalls == IF mqtt THEN << Call("mqtt.reconnect", <<>>) >> ELSE << >>

\* `fails`: the steps of the block that fail in this invocation
onNetworkConnected(fails) ==
    /\ APStartupComplete' = IF GateOpen THEN GateAfter ELSE APStartupComplete
    /\ initRuns' = IF GateOpen THEN Sat(initRuns) ELSE initRuns
    /\ calls' = (IF GateOpen THEN StartupCalls("MDNS.begin" \notin fails) ELSE << >>)
                  \o MqttCalls
    /\ (~GateOpen => fails = {})
    /\ failed' = fails

(***************************************************************************)
(* WiFiEvent() and the STA_DISCONNECTED lambda registered by initWifi().   *)
(***************************************************************************)
FlagAfterEvent_noLostIp(event) ==
    IF event = "STA_DISCONNECTED" THEN TRUE ELSE needReconnect

FlagAfterEvent_onConnected(event) ==
    IF event \in {"STA_CONNECTED", "STA_LOST_IP"} THEN TRUE ELSE needReconnect

\* lines 232-235, 244-247: needReconnect after WiFiEvent(event)
FlagAfterEvent(event) ==
    IF event \in DownEvents THEN TRUE ELSE needReconnect

CallsNetworkConnected_staOnly(event) == event = "STA_GOT_IP"

CallsNetworkConnected_withConnected(event) ==
    event \in UsableEvents \cup {"STA_CONNECTED"}

\* lines 239-243, 260-263
CallsNetworkConnected(event) == event \in UsableEvents

ReasonAfterEvent_resetOnGotIp(event, reason) ==
    IF event = "STA_DISCONNECTED" THEN reason % 256
    ELSE IF event = "STA_GOT_IP" THEN 0 ELSE wifiDisconnectReason

ReasonAfterEvent_keepFirst(event, reason) ==
    IF event = "STA_DISCONNECTED" /\ wifiDisconnectReason = 0
    THEN reason % 256 ELSE wifiDisconnectReason

\* lines 185-199: the lambda runs for STA_DISCONNECTED only
ReasonAfterEvent(event, reason) ==
    IF event = "STA_DISCONNECTED" THEN reason % 256 ELSE wifiDisconnectReason

WiFiEvent(event, reason, fails) ==
    /\ wifiReconnect
    /\ link' = LinkAfter(event)
    /\ needReconnect' = FlagAfterEvent(event)
    /\ wifiDisconnectReason' = ReasonAfterEvent(event, reason)
    /\ IF CallsNetworkConnected(event)
       THEN onNetworkConnected(fails)
       ELSE /\ calls' = << >>
            /\ fails = {}
            /\ failed' = {}
            /\ UNCHANGED <<APStartupComplete, initRuns>>
    /\ usableEvents' = IF event \in UsableEvents THEN Sat(usableEvents) ELSE usableEvents
    /\ lastOp' = event
    /\ UNCHANGED threadVars
    /\ evReason' = reason
    /\ connectSinceDown' = (connectSinceDown /\ event \notin DownEvents)
    /\ UNCHANGED <<config, mqtt, wifiReconnect, booted, nextDelay>>

\* an event as the stack delivers it: a reason code comes with link-down events
Deliver ==
    \E event \in Events, fails \in SUBSET InitSteps :
        \E reason \in (IF event \in DownEvents THEN Reasons ELSE {0}) :
            WiFiEvent(event, reason, fails)

(***************************************************************************)
(* initWifi()                                                              *)
(***************************************************************************)
\* lines 159-202, with whether a static address is configured
InitCalls(static) ==
    << Call("createSSLCert", <<>>),
       Call("WiFi.mode", <<"WIFI_MODE_STA">>),
       Call("WiFi.setHostname", <<>>),
       Call("WiFi.onEvent", <<"WiFiEvent">>),
       Call("WiFi.setAutoReconnect", <<TRUE>>),
       Call("WiFi.setSleep", <<FALSE>>) >>
    \o (IF static THEN << Call("WiFi.config", <<>>) >> ELSE << >>)
    \o << Call("esp_wifi_set_ps", <<"WIFI_PS_NONE">>),
          Call("WiFi.onEvent", <<"STA_DISCONNECTED">>) >>

initWifi ==
    /\ ~booted
    /\ booted' = TRUE
    /\ \E static \in BOOLEAN :
        IF config.wifi_enabled /\ config.wifi_ssid[1] # 0
        THEN /\ calls' = InitCalls(static)
             /\ wifiReconnect' = TRUE
        ELSE /\ ~static
             /\ calls' = << >>
             /\ wifiReconnect' = wifiReconnect
    /\ lastOp' = "initWifi"
    /\ UNCHANGED threadVars
    /\ failed' = {}
    /\ UNCHANGED <<config, mqtt, needReconnect, APStartupComplete,
                   wifiDisconnectReason, link, evReason, nextDelay,
                   connectSinceDown, usableEvents, initRuns>>

(***************************************************************************)
(* deinitWifi()                                                            *)
(***************************************************************************)
deinitWifi ==
    /\ booted
    /\ calls' = IF isWifiAvailable
                THEN << Call("WiFi.mode", <<"WIFI_MODE_NULL">>) >>
                ELSE << >>
    /\ link' = IF isWifiAvailable THEN "Down" ELSE link
    /\ lastOp' = "deinitWifi"
    /\ UNCHANGED threadVars
    /\ failed' = {}
    /\ UNCHANGED <<config, mqtt, needReconnect, APStartupComplete,
                   wifiDisconnectReason, wifiReconnect, booted, evReason,
                   nextDelay, connectSinceDown, usableEvents, initRuns>>

(***************************************************************************)
(* The environment: the configuration store rewrites one field of          *)
(* config.network, and a connection attempt of the stack ends without any  *)
(* event reaching the handler.                                             *)
(***************************************************************************)
SetConfig ==
    /\ booted
    /\ \E c \in Configs :
          /\ Cardinality({k \in DOMAIN c : c[k] # config[k]}) = 1
          /\ config' = c
    /\ calls' = << >>
    /\ lastOp' = "SetConfig"
    /\ UNCHANGED threadVars
    /\ failed' = {}
    /\ UNCHANGED <<mqtt, needReconnect, APStartupComplete, wifiDisconnectReason,
                   wifiReconnect, booted, link, evReason, nextDelay,
                   connectSinceDown, usableEvents, initRuns>>

ConnectFailsSilently ==
    /\ wifiReconnect
    /\ link = "Connecting"
    /\ link' = "Down"
    /\ calls' = << >>
    /\ lastOp' = "ConnectFailsSilently"
    /\ UNCHANGED threadVars
    /\ failed' = {}
    /\ UNCHANGED <<config, mqtt, needReconnect, APStartupComplete,
                   wifiDisconnectReason, wifiReconnect, booted, evReason,
                   nextDelay, connectSinceDown, usableEvents, initRuns>>

(***************************************************************************)
(* Specification.                                                          *)
(***************************************************************************)
Init ==
    /\ config \in Configs
    /\ mqtt \in BOOLEAN
    /\ needReconnect = TRUE
    /\ APStartupComplete = FALSE
    /\ wifiDisconnectReason = 0
    /\ wifiReconnect = FALSE
    /\ booted = FALSE
    /\ link = "Down"
    /\ lastOp = "start"
    /\ evReason = 0
    /\ calls = << >>
    /\ failed = {}
    /\ nextDelay = 0
    /\ connectSinceDown = FALSE
    /\ usableEvents = 0
    /\ initRuns = 0
    /\ tpc = 0
    /\ tickLog = << >>
    /\ hpc = [h \in Handlers |-> "idle"]
    /\ overlapped = FALSE

Next ==
    \/ initWifi
    \/ reconnectWiFi
    \/ Deliver
    \/ deinitWifi
    \/ SetConfig
    \/ ConnectFailsSilently

Spec == Init /\ [][Next]_vars

\* the Periodic runs reconnectWiFi again after every returned delay
FairSpec == Spec /\ WF_vars(reconnectWiFi)

(***************************************************************************)
(* reconnectWiFi() statement by statement, for the case that the event     *)
(* callbacks run in another execution context than the Periodic: the       *)
(* callbacks stay atomic and may run between any two statements.           *)
(***************************************************************************)
TickBody_clearLast ==
    ConnectCalls \o << Call("needReconnect =", <<FlagAfterConnect>>) >>

TickBody_noDisconnect ==
    << Call("needReconnect =", <<FlagAfterConnect>>),
       Call("WiFi.mode", <<"WIFI_MODE_STA">>),
       Call("WiFi.begin", <<Ptr(config.wifi_ssid), PswArg>>) >>

\* lines 51-58: the statements of the reconnect branch, in order
TickBody == << Call("needReconnect =", <<FlagAfterConnect>>) >> \o ConnectCalls

\* lines 45-50: the tests that guard the reconnect branch
TickTest ==
    /\ wifiReconnect
    /\ tpc = 0
    /\ tpc' = IF ReconnectGuard /\ HasName THEN 1 ELSE Len(TickBody) + 1
    /\ tickLog' = << >>
    /\ UNCHANGED <<config, mqtt, needReconnect, APStartupComplete,
                   wifiDisconnectReason, wifiReconnect, booted, link, lastOp,
                   evReason, calls, failed, nextDelay, connectSinceDown,
                   usableEvents, initRuns, hpc, overlapped>>

\* lines 51-58: the next statement of the reconnect branch
TickStmt ==
    /\ tpc \in 1..Len(TickBody)
    /\ LET stmt == TickBody[tpc]
       IN  /\ needReconnect' = IF stmt.f = "needReconnect =" THEN stmt.a[1]
                               ELSE needReconnect
           /\ link' = CASE stmt.f = "WiFi.disconnect" -> "Down"
                        [] stmt.f = "WiFi.begin" -> "Connecting"
                        [] OTHER -> link
           /\ connectSinceDown' = (connectSinceDown \/ stmt.f = "WiFi.begin")
           /\ tickLog' = Append(tickLog, stmt)
    /\ tpc' = tpc + 1
    /\ UNCHANGED <<config, mqtt, APStartupComplete, wifiDisconnectReason,
                   wifiReconnect, booted, lastOp, evReason, calls, failed,
                   nextDelay, usableEvents, initRuns, hpc, overlapped>>

\* lines 62-80: the NTP refresh and the return
TickNtp ==
    /\ tpc = Len(TickBody) + 1
    /\ \E ok \in BOOLEAN :
          /\ (link # "Up" => ok)
          /\ calls' = tickLog \o NtpCalls(WiFi_isConnected, ok)
          /\ failed' = IF ok THEN {} ELSE {"timeClient.update"}
    /\ nextDelay' = ReconnectDelay
    /\ lastOp' = "reconnectWiFi"
    /\ tpc' = 0
    /\ UNCHANGED <<config, mqtt, needReconnect, APStartupComplete,
                   wifiDisconnectReason, wifiReconnect, booted, link, evReason,
                   connectSinceDown, usableEvents, initRuns, tickLog, hpc,
                   overlapped>>

\* an event callback that runs as a whole between two statements of the tick
TickEvent ==
    \E event \in Events :
        \E reason \in (IF event \in DownEvents THEN Reasons ELSE {0}) :
            WiFiEvent(event, reason, {})

TickNext ==
    \/ initWifi
    \/ TickTest
    \/ TickStmt
    \/ TickNtp
    \/ TickEvent
    \/ ConnectFailsSilently

TickSpec == Init /\ [][TickNext]_vars

(***************************************************************************)
(* onNetworkConnected() statement by statement, for an event source that   *)
(* runs the callbacks of two events in two contexts at once.               *)
(***************************************************************************)
\* lines 239-243, 260-263: WiFiEvent enters onNetworkConnected in context h
HEnter(h) ==
    /\ wifiReconnect
    /\ hpc[h] = "idle"
    /\ \E event \in Events :
          /\ CallsNetworkConnected(event)
          /\ link' = LinkAfter(event)
          /\ needReconnect' = FlagAfterEvent(event)
          /\ wifiDisconnectReason' = ReasonAfterEvent(event, 0)
          /\ connectSinceDown' = (connectSinceDown /\ event \notin DownEvents)
          /\ usableEvents' = Sat(usableEvents)
          /\ lastOp' = event
    /\ hpc' = [hpc EXCEPT ![h] = "check"]
    /\ overlapped' = (overlapped \/ \E g \in Handlers \ {h} : hpc[g] # "idle")
    /\ calls' = << >>
    /\ failed' = {}
    /\ evReason' = 0
    /\ UNCHANGED <<config, mqtt, APStartupComplete, wifiReconnect, booted,
                   nextDelay, initRuns, tpc, tickLog>>

HGate_always == TRUE

\* line 120: the test of APStartupComplete, as the invocation reads it
HGate == GateOpen

\* line 120: the branch on that test
HCheck(h) ==
    /\ hpc[h] = "check"
    /\ hpc' = [hpc EXCEPT ![h] = IF HGate THEN "init" ELSE "mqtt"]
    /\ UNCHANGED <<config, mqtt, needReconnect, APStartupComplete,
                   wifiDisconnectReason, wifiReconnect, booted, link, lastOp,
                   evReason, calls, failed, nextDelay, connectSinceDown,
                   usableEvents, initRuns, tpc, tickLog, overlapped>>

\* lines 122-141: the initialization block
HInit(h) ==
    /\ hpc[h] = "init"
    /\ \E mdnsOk \in BOOLEAN :
          /\ calls' = StartupCalls(mdnsOk)
          /\ failed' = IF mdnsOk THEN {} ELSE {"MDNS.begin"}
    /\ initRuns' = Sat(initRuns)
    /\ hpc' = [hpc EXCEPT ![h] = "set"]
    /\ UNCHANGED <<config, mqtt, needReconnect, APStartupComplete,
                   wifiDisconnectReason, wifiReconnect, booted, link, lastOp,
                   evReason, nextDelay, connectSinceDown, usableEvents,
                   tpc, tickLog, overlapped>>

\* line 143: APStartupComplete = true
HSet(h) ==
    /\ hpc[h] = "set"
    /\ APStartupComplete' = GateAfter
    /\ hpc' = [hpc EXCEPT ![h] = "mqtt"]
    /\ UNCHANGED <<config, mqtt, needReconnect, wifiDisconnectReason,
                   wifiReconnect, booted, link, lastOp, evReason, calls, failed,
                   nextDelay, connectSinceDown, usableEvents, initRuns,
                   tpc, tickLog, overlapped>>

\* lines 146-148: the reconnect hook, and the return
HMqtt(h) ==
    /\ hpc[h] = "mqtt"
    /\ calls' = MqttCalls
    /\ failed' = {}
    /\ hpc' = [hpc EXCEPT ![h] = "idle"]
    /\ UNCHANGED <<config, mqtt, needReconnect, APStartupComplete,
                   wifiDisconnectReason, wifiReconnect, booted, link, lastOp,
                   evReason, nextDelay, connectSinceDown, usableEvents,
                   initRuns, tpc, tickLog, overlapped>>

\* the events that do not enter onNetworkConnected are handled in one step
HOther ==
    \E event \in Events :
        \E reason \in (IF event \in DownEvents THEN Reasons ELSE {0}) :
            /\ ~CallsNetworkConnected(event)
            /\ WiFiEvent(event, reason, {})

GateNext ==
    \/ initWifi
    \/ \E h \in Handlers : HEnter(h)
    \/ \E h \in Handlers : HCheck(h)
    \/ \E h \in Handlers : HInit(h)
    \/ \E h \in Handlers : HSet(h)
    \/ \E h \in Handlers : HMqtt(h)
    \/ HOther

GateSpec == Init /\ [][GateNext]_vars

(***************************************************************************)
(* Properties.                                                             *)
(***************************************************************************)
\* indices of the calls to f made by the operation that ran last
CallsTo(cs, f) == {i \in DOMAIN cs : cs[i].f = f}

\* the commands the WiFi stack accepts from this file
LinkCommands == {"WiFi.disconnect", "WiFi.mode", "WiFi.begin"}

NoLinkCommand(cs) == \A i \in DOMAIN cs : cs[i].f \notin LinkCommands

\* the calls of the service-initialization block of onNetworkConnected
InitBlock == {"MDNS.begin", "timeClient.begin", "initWebServer", "initApiServer"}

RanInitBlock(cs) == \A f \in InitBlock : Cardinality(CallsTo(cs, f)) = 1

SkippedInitBlock(cs) == \A f \in InitBlock : CallsTo(cs, f) = {}

\* this step is a run of reconnectWiFi
Ticked == lastOp' = "reconnectWiFi"

\* the operation that ran last is a tick that issued WiFi.begin
ConnectIssued == lastOp = "reconnectWiFi" /\ CallsTo(calls, "WiFi.begin") # {}

\* the availability predicate as the specification words it
Available == config.wifi_enabled /\ StrLen(config.wifi_ssid) > 0

\* C1: the service-initialization block of onNetworkConnected runs exactly
\* once per process run: on the first STA_GOT_IP or AP_START event handled,
\* and on no later one.
C1_StartupGateOnce ==
    /\ initRuns = (IF usableEvents > 0 THEN 1 ELSE 0)
    /\ lastOp \in UsableEvents /\ usableEvents = 1 => RanInitBlock(calls)
    /\ lastOp \in UsableEvents /\ usableEvents > 1 => SkippedInitBlock(calls)

\* C1 witness: a repeated usable event, after a disconnect was seen, left
\* the block at one run.
C1_Witness ==
    /\ lastOp \in UsableEvents
    /\ usableEvents = 2
    /\ wifiDisconnectReason # 0
    /\ initRuns = 1
    /\ SkippedInitBlock(calls)

\* C2 as claimed: needReconnect = TRUE implies the link is not Up.
C2_Original == needReconnect => link # "Up"

\* C2 as amended: needReconnect is TRUE with the link Up only when no tick
\* issued a connect since the last link-down event (or since process
\* start); once a tick has issued WiFi.begin, needReconnect is FALSE until
\* the next link-down event, whatever the link does.
C2_IntentOnlyWithoutConnect ==
    /\ needReconnect /\ link = "Up" => ~connectSinceDown
    /\ connectSinceDown => ~needReconnect

\* C2 witness: the link came Up again after a disconnect without a tick.
C2_Witness ==
    /\ needReconnect
    /\ link = "Up"
    /\ lastOp = "STA_GOT_IP"
    /\ wifiDisconnectReason # 0
    /\ nextDelay # 0

\* C3: a tick that runs while the link is Up issues no WiFi.disconnect,
\* WiFi.mode or WiFi.begin, whatever the configuration and needReconnect.
C3_NoCommandWhileUp ==
    [][(link = "Up" /\ Ticked) => (NoLinkCommand(calls') /\ link' = "Up")]_vars

\* C3 witness: a tick ran with the link Up, the network available and
\* needReconnect set, and issued nothing.
C3_Witness ==
    /\ lastOp = "reconnectWiFi"
    /\ link = "Up"
    /\ needReconnect
    /\ Available
    /\ NoLinkCommand(calls)

\* C4: with wifi_enabled false or an empty network name a tick issues no
\* link command and leaves the link as it is; and when the network was
\* unavailable at initWifi (no reconnector, no handler) the link stays Down.
C4_NoConnectWhenUnavailable ==
    [][/\ (~Available /\ Ticked) => (NoLinkCommand(calls') /\ link' = link)
       /\ (booted' /\ ~wifiReconnect') => link' = "Down"]_vars

\* C4 witness: a tick ran with the network unavailable, needReconnect set
\* and the link not Up, after link events had been handled.
C4_Witness ==
    /\ lastOp = "reconnectWiFi"
    /\ ~Available
    /\ needReconnect
    /\ link # "Up"
    /\ usableEvents > 0
    /\ wifiDisconnectReason # 0
    /\ calls = << >>

\* C5: isWifiAvailable() is true exactly when wifi_enabled is set and the
\* network name is a non-empty string, and deinitWifi, which calls it,
\* switches the radio off exactly then.
C5_AvailableIffEnabledAndNamed ==
    /\ isWifiAvailable = (config.wifi_enabled /\ StrLen(config.wifi_ssid) > 0)
    /\ lastOp = "deinitWifi" =>
          ((CallsTo(calls, "WiFi.mode") # {}) = Available)

\* C5 witness: deinitWifi ran enabled with an empty name (a NUL first byte
\* before other bytes of the buffer) and found the network unavailable.
C5_Witness ==
    /\ lastOp = "deinitWifi"
    /\ config.wifi_enabled
    /\ config.wifi_ssid[1] = 0
    /\ config.wifi_ssid[2] # 0
    /\ calls = << >>

\* C6: right after a STA_DISCONNECTED or STA_LOST_IP event is handled,
\* needReconnect is TRUE.
C6_DownEventSetsIntent == lastOp \in DownEvents => needReconnect

\* C6 witness: STA_LOST_IP handled after a tick had connected and the link
\* had come Up.
C6_Witness ==
    /\ lastOp = "STA_LOST_IP"
    /\ needReconnect
    /\ nextDelay # 0
    /\ usableEvents > 0
    /\ ~connectSinceDown

\* C7 as claimed: after a STA_DISCONNECTED or a STA_LOST_IP event the
\* recorded reason is the reason code of that event.
C7_Original == lastOp \in DownEvents => wifiDisconnectReason = evReason

\* C7 as amended: a STA_DISCONNECTED event overwrites the recorded reason
\* with its own code; a STA_LOST_IP event leaves the recorded reason as it
\* was.
C7_ReasonFromDisconnectedOnly ==
    [][/\ lastOp' = "STA_DISCONNECTED" => wifiDisconnectReason' = evReason'
       /\ lastOp' = "STA_LOST_IP" => wifiDisconnectReason' = wifiDisconnectReason]_vars

\* C7 witness: a second disconnect replaced the reason of an earlier one.
C7_Witness ==
    /\ lastOp = "STA_DISCONNECTED"
    /\ evReason = 201
    /\ wifiDisconnectReason = 201
    /\ usableEvents = 2

\* C8: a tick that starts with the network enabled and named, needReconnect
\* TRUE and the link not Up issues exactly one WiFi.begin, with the stored
\* name and the stored secret, the secret being NULL when it is empty.
C8_TickConnects ==
    [][(Available /\ needReconnect /\ link # "Up" /\ Ticked) =>
          /\ Cardinality(CallsTo(calls', "WiFi.begin")) = 1
          /\ \A i \in CallsTo(calls', "WiFi.begin") :
                calls'[i].a =
                    << [null |-> FALSE, str |-> Str(config.wifi_ssid)],
                       IF StrLen(config.wifi_psk) = 0
                       THEN [null |-> TRUE, str |-> << >>]
                       ELSE [null |-> FALSE, str |-> Str(config.wifi_psk)] >>]_vars

\* C8 witness: the tick after a disconnect received while Up connects again,
\* here with an empty secret.
C8_Witness ==
    /\ ConnectIssued
    /\ usableEvents > 0
    /\ wifiDisconnectReason = 8
    /\ StrLen(config.wifi_psk) = 0
    /\ link = "Connecting"

C10_IntentClearedByConnect ==
    [][/\ (Ticked /\ CallsTo(calls', "WiFi.begin") # {}) => ~needReconnect'
       /\ (~needReconnect /\ needReconnect') => lastOp' \in DownEvents]_vars

\* C10 witness: needReconnect still FALSE when the address arrives after a
\* connect.
C10_Witness ==
    /\ ~needReconnect
    /\ connectSinceDown
    /\ lastOp = "STA_GOT_IP"
    /\ link = "Up"

\* C11 as claimed: every STA_GOT_IP or AP_START event calls
\* mqtt->reconnect() exactly once, after the initialization block when that
\* runs, and as the only call on every later event.
C11_Original ==
    lastOp \in UsableEvents =>
        /\ Cardinality(CallsTo(calls, "mqtt.reconnect")) = 1
        /\ calls[Len(calls)].f = "mqtt.reconnect"
        /\ usableEvents > 1 => Len(calls) = 1

\* C11 as amended: every STA_GOT_IP or AP_START event calls
\* mqtt->reconnect() exactly once when the mqtt client exists and not at
\* all when the mqtt pointer is null; the call comes after the
\* initialization block when that runs, and is the only call made on every
\* later event.
C11_ReconnectHookWhenMqtt ==
    lastOp \in UsableEvents =>
        /\ Cardinality(CallsTo(calls, "mqtt.reconnect")) = (IF mqtt THEN 1 ELSE 0)
        /\ mqtt => calls[Len(calls)].f = "mqtt.reconnect"
        /\ usableEvents > 1 => \A i \in DOMAIN calls : calls[i].f = "mqtt.reconnect"
        /\ usableEvents = 1 => RanInitBlock(calls)

\* C11 witness: AP_START, as a repeated usable event, made the one call.
C11_Witness ==
    /\ lastOp = "AP_START"
    /\ usableEvents = 2
    /\ mqtt
    /\ Len(calls) = 1
    /\ calls[1].f = "mqtt.reconnect"

\* C12: whichever steps of the initialization block fail, the invocation
\* that finds APStartupComplete unset attempts all four steps and leaves
\* APStartupComplete set; the flag is never unset afterwards and no later
\* event runs a step of the block again.
C12_StepsBestEffort ==
    [][/\ (lastOp' \in UsableEvents /\ ~APStartupComplete) =>
              (RanInitBlock(calls') /\ APStartupComplete')
       /\ APStartupComplete =>
              (APStartupComplete' /\ (lastOp' \in Events => SkippedInitBlock(calls')))]_vars

\* C12 witness: MDNS.begin and initWebServer failed in the invocation that
\* ran the block; initApiServer was still called and the flag is set.
C12_Witness ==
    /\ lastOp \in UsableEvents
    /\ failed = {"MDNS.begin", "initWebServer"}
    /\ CallsTo(calls, "initApiServer") # {}
    /\ RanInitBlock(calls)
    /\ APStartupComplete

\* the transitions of the link-state table: Down to Connecting by a
\* Connect command, Connecting to Up on STA_GOT_IP, any state to Down on
\* STA_DISCONNECTED or STA_LOST_IP, Down or Connecting to Up on AP_START
InTable ==
    \/ link = "Down" /\ link' = "Connecting"
          /\ Ticked /\ CallsTo(calls', "WiFi.begin") # {}
    \/ link = "Connecting" /\ link' = "Up" /\ lastOp' = "STA_GOT_IP"
    \/ link' = "Down" /\ lastOp' \in DownEvents
    \/ link \in {"Down", "Connecting"} /\ link' = "Up" /\ lastOp' = "AP_START"

\* C14 as claimed: an event or a tick changes the link only by a
\* transition of the table, and an event runs the became-usable actions
\* only on an entry to Up of the table (or as a repeat while Up).
C14_Original ==
    [][lastOp' \in Events \cup {"reconnectWiFi"} =>
          /\ link' # link => InTable
          /\ (lastOp' \in Events /\ calls' # << >>) =>
                (InTable \/ (link = "Up" /\ lastOp' \in UsableEvents))]_vars

\* C14 as amended: STA_DISCONNECTED and STA_LOST_IP take the link Down from
\* any state, STA_GOT_IP and AP_START take it Up from any state (from Down
\* with no connect outstanding too), other events leave it; a tick changes
\* it only to Connecting, from a state that is not Up, by a Connect
\* command; onNetworkConnected runs on every STA_GOT_IP and AP_START event,
\* whatever the state before, and on no other event.
C14_TransitionsFollowEvents ==
    [][/\ lastOp' \in DownEvents => link' = "Down"
       /\ lastOp' \in UsableEvents =>
             /\ link' = "Up"
             /\ APStartupComplete'
             /\ mqtt => CallsTo(calls', "mqtt.reconnect") # {}
       /\ lastOp' \in Events \ UsableEvents =>
             /\ calls' = << >>
             /\ APStartupComplete' = APStartupComplete
       /\ lastOp' \in Events \ (UsableEvents \cup DownEvents) => link' = link
       /\ Ticked =>
             \/ link' = link
             \/ /\ link # "Up"
                /\ link' = "Connecting"
                /\ CallsTo(calls', "WiFi.begin") # {}]_vars

\* C14 witness: STA_GOT_IP arrived before any tick had run, with the link
\* Down, and ran the became-usable actions.
C14_Witness ==
    /\ lastOp = "STA_GOT_IP"
    /\ nextDelay = 0
    /\ usableEvents = 1
    /\ wifiDisconnectReason = 0
    /\ link = "Up"
    /\ RanInitBlock(calls)

\* C15: a tick calls timeClient.update(), once, exactly when the link is Up
\* at that point of the tick, whatever wifi_enabled, the network name and
\* needReconnect are; a tick that issued WiFi.begin does not call it.
C15_NtpRefreshIffUp ==
    [][Ticked =>
          /\ Cardinality(CallsTo(calls', "timeClient.update")) =
                (IF link = "Up" THEN 1 ELSE 0)
          /\ CallsTo(calls', "WiFi.begin") # {} =>
                CallsTo(calls', "timeClient.update") = {}]_vars

\* C15 witness: a tick refreshed the time with the link Up although the
\* network is disabled, unnamed and needReconnect is set.
C15_Witness ==
    /\ lastOp = "reconnectWiFi"
    /\ link = "Up"
    /\ ~config.wifi_enabled
    /\ StrLen(config.wifi_ssid) = 0
    /\ needReconnect
    /\ CallsTo(calls, "timeClient.update") # {}

\* C16: in a tick, perhapsSetRTC(RTCQualityNTP, ...) is called, once,
\* exactly when timeClient.update() was called and succeeded; when it
\* failed nothing is submitted, update is not called again in the tick, and
\* the tick returns its usual delay.
C16_SubmitIffNtpSuccess ==
    lastOp = "reconnectWiFi" =>
        /\ Cardinality(CallsTo(calls, "perhapsSetRTC")) =
              (IF CallsTo(calls, "timeClient.update") # {}
                  /\ "timeClient.update" \notin failed
               THEN 1 ELSE 0)
        /\ \A i \in CallsTo(calls, "perhapsSetRTC") : calls[i].a = <<"RTCQualityNTP">>
        /\ Cardinality(CallsTo(calls, "timeClient.update")) <= 1
        /\ nextDelay = 43200000

\* C16 witness: the time request failed in a tick; nothing was submitted
\* and the tick returned 12 hours.
C16_Witness ==
    /\ lastOp = "reconnectWiFi"
    /\ "timeClient.update" \in failed
    /\ Cardinality(CallsTo(calls, "timeClient.update")) = 1
    /\ CallsTo(calls, "perhapsSetRTC") = {}
    /\ nextDelay = 43200000

\* C18: wifiDisconnectReason is 0 at process start and changes only in the
\* step that handles a STA_DISCONNECTED event: ticks (connecting or not),
\* STA_GOT_IP, AP_START, STA_CONNECTED and the runs of onNetworkConnected
\* leave it as it was.
C18_ReasonRetained ==
    /\ wifiDisconnectReason = 0
    /\ [][wifiDisconnectReason' # wifiDisconnectReason =>
             lastOp' = "STA_DISCONNECTED"]_vars

\* C18 witness: the reason of an earlier disconnect is still recorded after
\* a tick reconnected and the address arrived.
C18_Witness ==
    /\ wifiDisconnectReason = 201
    /\ lastOp = "STA_GOT_IP"
    /\ connectSinceDown
    /\ link = "Up"
    /\ usableEvents = 2

\* C19: a tick issues WiFi.begin only when no tick issued one since the
\* last STA_DISCONNECTED or STA_LOST_IP event handled (or since process
\* start): between two consecutive Connect commands there is such an event,
\* so the Connect commands number at most one plus those events, and ticks
\* alone never issue a second Connect.
C19_ConnectsBoundedByDownEvents ==
    [][(Ticked /\ CallsTo(calls', "WiFi.begin") # {}) =>
          (~connectSinceDown /\ Cardinality(CallsTo(calls', "WiFi.begin")) = 1)]_vars

\* C19 witness: a second tick in a row, with the link silently back Down
\* and the network available, issued nothing.
C19_Witness ==
    /\ lastOp = "reconnectWiFi"
    /\ connectSinceDown
    /\ Available
    /\ link = "Down"
    /\ calls = << >>

(***************************************************************************)
(* C13.  Two invocations of onNetworkConnected whose statements            *)
(* interleave (GateSpec).                                                  *)
(***************************************************************************)
\* both event contexts have returned from onNetworkConnected
HandlersIdle == \A h \in Handlers : hpc[h] = "idle"

\* C13 as stated: also when the statements of two invocations interleave,
\* the initialization block runs exactly once, that is never a second time.
C13_Original == initRuns <= 1

\* C13, amended: the initialization block runs a second time only when two
\* invocations were in progress at once (the test of line 120 and the
\* assignment of line 143 are separate statements with the block between
\* them); invocations that run one after the other run it once, an
\* invocation that tests the flag after it was set skips the block, and the
\* block never runs more often than there are event contexts.
C13_OnceUnlessOverlapped ==
    /\ [](~overlapped => initRuns <= 1)
    /\ [](initRuns <= Cardinality(Handlers))
    /\ [](HandlersIdle /\ usableEvents >= 1 => initRuns >= 1 /\ APStartupComplete)
    /\ [][\A h \in Handlers :
             hpc[h] = "check" /\ APStartupComplete /\ hpc'[h] # "check"
                 => hpc'[h] = "mqtt" /\ initRuns' = initRuns]_vars

\* two overlapping invocations have both run the block and returned
C13_Witness ==
    /\ HandlersIdle
    /\ overlapped
    /\ initRuns = 2
    /\ APStartupComplete

(***************************************************************************)
(* C17, C20.  reconnectWiFi statement by statement, with event callbacks   *)
(* between the statements (TickSpec).                                      *)
(***************************************************************************)
\* the statements of a reconnecting tick, in the order C17 names them
ReconnectOrder ==
    << "needReconnect =", "WiFi.disconnect", "WiFi.mode", "WiFi.begin" >>

\* the tick has left the reconnect branch (or has not entered it)
TickDone == tpc \notin 1..Len(TickBody)

\* C17: in every tick that reconnects the statements run in the order clear
\* needReconnect, WiFi.disconnect clearing the credentials, WiFi.mode
\* (station), WiFi.begin; WiFi.begin never runs without that disconnect
\* earlier in the same tick, and at most once per tick.
C17_ReconnectOrder ==
    /\ Len(tickLog) <= Len(ReconnectOrder)
    /\ \A i \in DOMAIN tickLog : tickLog[i].f = ReconnectOrder[i]
    /\ \A i \in DOMAIN tickLog :
          /\ tickLog[i].f = "needReconnect =" => tickLog[i].a = <<FALSE>>
          /\ tickLog[i].f = "WiFi.disconnect" => tickLog[i].a = <<FALSE, TRUE>>
          /\ tickLog[i].f = "WiFi.mode" => tickLog[i].a = <<"WIFI_MODE_STA">>
    /\ \A i \in DOMAIN tickLog :
          tickLog[i].f = "WiFi.begin" =>
              \E j \in 1..(i - 1) : tickLog[j] = Call("WiFi.disconnect", <<FALSE, TRUE>>)
    /\ Cardinality(CallsTo(tickLog, "WiFi.begin")) <= 1
    /\ (TickDone /\ tickLog # << >> => Len(tickLog) = Len(ReconnectOrder))

\* a reconnecting tick has run all its statements while an event callback
\* ran between them
C17_Witness ==
    /\ tpc = 0
    /\ lastOp = "reconnectWiFi"
    /\ Len(tickLog) = Len(ReconnectOrder)
    /\ needReconnect

\* C20: whenever no tick is in progress (event callbacks are whole steps),
\* needReconnect is true or WiFi.begin was issued after the last link-down
\* event wrote it: no link-down event is left with needReconnect false and
\* no connect after it.
C20_NoDownEventLost ==
    tpc = 0 => needReconnect \/ connectSinceDown

\* a link-down event wrote needReconnect between the tick's clearing of it
\* and the tick's WiFi.begin, and the tick has returned
C20_Witness ==
    /\ tpc = 0
    /\ lastOp = "reconnectWiFi"
    /\ needReconnect
    /\ connectSinceDown
    /\ tickLog # << >>

====
